---- MODULE Spec2Model ----
(***************************************************************************)
(* A model of the pipemd configuration lexer (code_gen/src/lex.rs) and of  *)
(* the render-pipeline record parser (code_gen/src/config.rs).             *)
(*                                                                         *)
(* A Rust &str is modelled as its UTF-8 bytes: the first byte of a code    *)
(* point is written as the code point itself, every further byte of it as  *)
(* Cont.  All span arithmetic is done on byte offsets as in the source.    *)
(* Slicing a &str at an offset that is out of bounds or not on a           *)
(* code-point boundary panics in Rust; the model makes that outcome a      *)
(* value (Panic) so that its absence can be checked.                       *)
(***************************************************************************)
EXTENDS Integers, Sequences, FiniteSets, TLC

VARIABLES
    gen,        \* how the input text was put together (ghost, read by the properties only)
    src,        \* the &str handed to RenderPipelineConfig::parse
    pc,         \* position inside RenderPipelineConfig::parse
    rest,       \* `remaining` in TokenStream::new
    tokens,     \* TokenStream.tokens (`tokens` in TokenStream::new while it runs)
    index,      \* TokenStream.index
    name,       \* let mut name: Option<&str>
    vs_entry,   \* let mut vs_entry: Option<&str>
    fs_entry,   \* let mut fs_entry: Option<&str>
    result,     \* the value parse returned (None while it is running)
    calls,      \* cursor driver: number of next() calls made so far
    last,       \* cursor driver: the last peek()/next() call and what it returned
    view,       \* view driver: the SpannedStr the next operation is applied to
    vlast       \* view driver: the last operation, its argument, its receiver and its result

vars == <<gen, src, pc, rest, tokens, index, name, vs_entry, fs_entry, result,
          calls, last, view, vlast>>

----------------------------------------------------------------------------
(* Option, panics *)

\* Every Option and Result value is a record with a tag; a panic is one more
\* tag.  A &str-valued operation that panics yields the one-element sequence
\* PanicStr, which no text contains.
None == [tag |-> "None"]
Some(x) == [tag |-> "Some", val |-> x]
Panic == [tag |-> "Panic"]
IsPanic(x) == x.tag = "Panic"
IsSome(x) == x.tag = "Some"
PanicStr == <<"!panic">>
IsPanicStr(s) == s = PanicStr

Min(a, b) == IF a <= b THEN a ELSE b

----------------------------------------------------------------------------
(* Code points.  ASCII characters stand for themselves; three non-ASCII    *)
(* code points are named by their number.                                  *)

NL == "\n"
TAB == "\t"
QUOTE == "\""
EAcute == "U+00E9"      \* a two-byte alphabetic code point
Nbsp == "U+00A0"        \* a two-byte white-space code point
Rocket == "U+1F680"     \* a four-byte code point, neither alphabetic nor white space
Cont == "cont"          \* a UTF-8 continuation byte

Letters == {"a", "b", "c", "d", "e", "f", "i", "l", "m", "n", "o", "p", "r",
            "s", "t", "v", "x", "y", "A", "B", "C", EAcute}
Digits == {"0", "1"}

\* char::len_utf8
Utf8Len(c) == IF c = Rocket THEN 4 ELSE IF c \in {EAcute, Nbsp} THEN 2 ELSE 1

\* The UTF-8 bytes of a code point.
Utf8(c) == <<c>> \o [i \in 1..(Utf8Len(c) - 1) |-> Cont]

\* char::is_whitespace
is_whitespace(c) == c \in {" ", NL, TAB, Nbsp}
\* char::is_alphabetic
is_alphabetic(c) == c \in Letters
\* char::is_alphanumeric
is_alphanumeric(c) == c \in Letters \cup Digits

----------------------------------------------------------------------------
(* &str: byte lengths, char_indices, slicing *)

\* str::len: the length in bytes
ByteLen(s) == Len(s)

\* str::is_char_boundary: 0, the length, or the offset of a first byte.
IsCharBoundary(s, b) ==
    \/ b = 0
    \/ b = Len(s)
    \/ b \in 1..(Len(s) - 1) /\ s[b + 1] /= Cont

\* The least element of a non-empty set of numbers.
Least(S) == CHOOSE k \in S : \A j \in S : k <= j

\* The number of code points of s.
CharCount(s) == Cardinality({k \in 1..Len(s) : s[k] /= Cont})

\* The byte offset char_indices reports for the code point of index n
\* (n = 0 is the first), n < CharCount(s).
OffsetOfChar(s, n) ==
    LET starts == {k \in 1..Len(s) : s[k] /= Cont}
    IN  (CHOOSE b \in starts : Cardinality({k \in starts : k < b}) = n) - 1

\* &s[a..b]: panics unless a <= b <= len and both are code-point boundaries.
Slice(s, a, b) ==
    IF a <= b /\ b <= Len(s) /\ IsCharBoundary(s, a) /\ IsCharBoundary(s, b)
    THEN SubSeq(s, a + 1, b)
    ELSE PanicStr

----------------------------------------------------------------------------
(* SpannedStr *)

\* SpannedStr::new
NewSpannedStr(s, start_byte, end_byte) ==
    [src |-> s, start_byte |-> start_byte, end_byte |-> end_byte]

\* impl From<&str> for SpannedStr
FromStr(s) == NewSpannedStr(s, 0, ByteLen(s))

\* SpannedStr::substring
substring(v) ==
    IF v.start_byte >= v.end_byte
    THEN <<>>
    ELSE Slice(v.src, v.start_byte, v.end_byte)

\* SpannedStr::remaining starting the tail one byte after the span's end.
remaining_PastEnd(v) ==
    IF v.end_byte < ByteLen(v.src)
    THEN Some(NewSpannedStr(v.src, v.end_byte + 1, ByteLen(v.src)))
    ELSE None

\* SpannedStr::remaining
remaining(v) ==
    IF v.end_byte < ByteLen(v.src)
    THEN Some(NewSpannedStr(v.src, v.end_byte, ByteLen(v.src)))
    ELSE None

\* SpannedStr::first_char
first_char(v) ==
    LET s == substring(v)
    IN  IF IsPanicStr(s) THEN Panic
        ELSE IF s = <<>> THEN None ELSE Some(s[1])

\* SpannedStr::skip.  The iterator char_indices().take(n + 1) yields
\* min(n + 1, k) items for a substring of k code points; num counts them and
\* new_start ends as start_byte plus the offset of the last one.
skip(v, n) ==
    LET s == substring(v)
    IN  IF IsPanicStr(s) THEN Panic
        ELSE LET num == Min(n + 1, CharCount(s))
                 new_start == IF num = 0 THEN v.start_byte
                              ELSE v.start_byte + OffsetOfChar(s, num - 1)
             IN  IF num <= n THEN None
                 ELSE Some(NewSpannedStr(v.src, new_start, ByteLen(v.src)))

----------------------------------------------------------------------------
(* lex, lex_token *)

\* The identifier closure without the underscore.
IsIdentChar_NoUnderscore(c) == is_alphanumeric(c)

IsIdentChar(c) == is_alphanumeric(c) \/ c = "_"
IsStringChar(c) == c /= QUOTE /\ c /= NL

\* The closures lex_token passes to lex, by name.
Matches(matcher, c) ==
    CASE matcher = "whitespace" -> is_whitespace(c)
      [] matcher = "ident" -> IsIdentChar(c)
      [] matcher = "string" -> IsStringChar(c)

\* The byte offsets (plus one) of the code points the matcher rejects.
Rejected(s, matcher) == {k \in 1..Len(s) : s[k] /= Cont /\ ~Matches(matcher, s[k])}

\* lex ending the span at the code-point index (char_index) of the first
\* code point rejected, not at its byte offset.
lex_CharIndex(s, matcher) ==
    LET rejected == Rejected(s, matcher)
    IN  [src |-> s,
         start_byte |-> 0,
         end_byte |-> IF rejected = {} THEN CharCount(s)
                      ELSE CharCount(SubSeq(s, 1, Least(rejected) - 1))]

\* lex: the span [0, end) where end is the byte offset of the first code
\* point the matcher rejects, or the length when it rejects none.
lex(s, matcher) ==
    LET rejected == Rejected(s, matcher)
    IN  [src |-> s,
         start_byte |-> 0,
         end_byte |-> IF rejected = {} THEN ByteLen(s) ELSE Least(rejected) - 1]

\* The identifier scan with its span starting at the second code point.
lex_ident_FromSecond(s) ==
    LET rejected == Rejected(s, "ident")
    IN  [src |-> s,
         start_byte |-> IF s = <<>> THEN 0 ELSE Utf8Len(s[1]),
         end_byte |-> IF rejected = {} THEN ByteLen(s) ELSE Least(rejected) - 1]

\* The three scans lex_token makes.
lex_whitespace(s) == lex(s, "whitespace")
lex_ident(s) == lex(s, "ident")
lex_string(s) == lex(s, "string")

\* Token
Ident(text) == [type |-> "Ident", text |-> text]
String(text) == [type |-> "String", text |-> text]
Hash == [type |-> "Hash", text |-> <<>>]
Comma == [type |-> "Comma", text |-> <<>>]
LeftParen == [type |-> "LeftParen", text |-> <<>>]
RightParen == [type |-> "RightParen", text |-> <<>>]
Colon == [type |-> "Colon", text |-> <<>>]

\* LexError
LexEndOfInput == [type |-> "EndOfInput", char |-> ""]
InvalidChar(c) == [type |-> "InvalidChar", char |-> c]
NonterminatedString == [type |-> "NonterminatedString", char |-> ""]

\* Result<(Token, Option<SpannedStr>), LexError>
LexOk(token, rem) == [tag |-> "Ok", token |-> token, rem |-> rem]
LexErr(e) == [tag |-> "Err", err |-> e]

Punct(c) ==
    CASE c = "#" -> Hash
      [] c = "(" -> LeftParen
      [] c = ")" -> RightParen
      [] c = "," -> Comma
      [] c = ":" -> Colon

\* The string arm of lex_token without the test that the run ends at a quote.
lex_token_string_AnyTerminator(span) ==
    LET skipped == skip(span, 1)
    IN  IF IsPanic(skipped) THEN Panic
        ELSE IF ~IsSome(skipped) THEN LexErr(NonterminatedString)
        ELSE LET inner == substring(skipped.val)
             IN  IF IsPanicStr(inner) THEN Panic
                 ELSE LET data == lex_string(inner)
                          rem == remaining(data)
                      IN  IF ~IsSome(rem) THEN LexErr(NonterminatedString)
                          ELSE LET payload == substring(data)
                                   after == skip(rem.val, 1)
                               IN  IF IsPanicStr(payload) \/ IsPanic(after)
                                   THEN Panic
                                   ELSE LexOk(String(payload), after)

\* The string-literal arm of lex_token (span starts at the opening quote).
lex_token_string(span) ==
    LET skipped == skip(span, 1)
    IN  IF IsPanic(skipped) THEN Panic
        ELSE IF ~IsSome(skipped) THEN LexErr(NonterminatedString)
        ELSE LET inner == substring(skipped.val)
             IN  IF IsPanicStr(inner) THEN Panic
                 ELSE LET data == lex_string(inner)
                          rem == remaining(data)
                      IN  IF ~IsSome(rem) THEN LexErr(NonterminatedString)
                          ELSE LET fc == first_char(rem.val)
                                   payload == substring(data)
                                   after == skip(rem.val, 1)
                               IN  IF IsPanic(fc) THEN Panic
                                   ELSE IF ~IsSome(fc) \/ fc.val /= QUOTE
                                        THEN LexErr(NonterminatedString)
                                   ELSE IF IsPanicStr(payload) \/ IsPanic(after)
                                        THEN Panic
                                   ELSE LexOk(String(payload), after)

\* lex_token
lex_token(s) ==
    LET ws == lex_whitespace(s)
        rem == remaining(ws)
    IN  IF ~IsSome(rem) THEN LexErr(LexEndOfInput)
        ELSE LET span == rem.val
                 fc == first_char(span)
             IN  IF IsPanic(fc) THEN Panic
                 ELSE IF ~IsSome(fc) THEN LexErr(LexEndOfInput)
                 ELSE LET c == fc.val
                      IN  IF is_alphabetic(c) \/ c = "_"
                          THEN LET ident_src == substring(span)
                               IN  IF IsPanicStr(ident_src) THEN Panic
                                   ELSE LET data == lex_ident(ident_src)
                                            text == substring(data)
                                        IN  IF IsPanicStr(text) THEN Panic
                                            ELSE LexOk(Ident(text), remaining(data))
                          ELSE IF c \in {"#", "(", ")", ",", ":"}
                          THEN LET after == skip(span, 1)
                               IN  IF IsPanic(after) THEN Panic
                                   ELSE LexOk(Punct(c), after)
                          ELSE IF c = QUOTE
                          THEN lex_token_string(span)
                          ELSE LexErr(InvalidChar(c))

\* The views lex_token(s) makes on its way, in the order of the code: the
\* white-space span and its remaining(); then by arm the identifier span and
\* its remaining(), or span.skip(1), or for a string span.skip(1), the
\* payload span, its remaining() and, when that starts with a quote, its skip(1).
OptView(o) == IF IsSome(o) THEN {o.val} ELSE {}

lex_token_string_views(span) ==
    LET skipped == skip(span, 1)
    IN  IF ~IsSome(skipped) THEN {}
        ELSE LET inner == substring(skipped.val)
             IN  {skipped.val} \cup
                 IF IsPanicStr(inner) THEN {}
                 ELSE LET data == lex_string(inner)
                          rem == remaining(data)
                      IN  {data} \cup
                          IF ~IsSome(rem) THEN {}
                          ELSE {rem.val} \cup
                               IF first_char(rem.val) = Some(QUOTE)
                               THEN OptView(skip(rem.val, 1)) ELSE {}

lex_token_views(s) ==
    LET ws == lex_whitespace(s)
        rem == remaining(ws)
    IN  {ws} \cup
        IF ~IsSome(rem) THEN {}
        ELSE LET span == rem.val
                 fc == first_char(span)
             IN  {span} \cup
                 IF ~IsSome(fc) THEN {}
                 ELSE IF is_alphabetic(fc.val) \/ fc.val = "_"
                 THEN LET ident_src == substring(span)
                      IN  IF IsPanicStr(ident_src) THEN {}
                          ELSE LET data == lex_ident(ident_src)
                               IN  {data} \cup OptView(remaining(data))
                 ELSE IF fc.val \in {"#", "(", ")", ",", ":"}
                 THEN OptView(skip(span, 1))
                 ELSE IF fc.val = QUOTE
                 THEN lex_token_string_views(span)
                 ELSE {}

\* One pass of TokenStream::new's loop or its first lex attempt ends in one of:
\* a token pushed, the loop left, an error returned, a panic.
Pushed(toks, rem) == [tag |-> "Pushed", tokens |-> toks, rest |-> rem]
Left(toks) == [tag |-> "Left", tokens |-> toks, rest |-> None]

\* TokenStream::new up to the loop: `let (token, mut remaining) =
\* lex_token(src)?; tokens.push(token);`
new_first(s) ==
    LET r == lex_token(s)
    IN  IF IsPanic(r) \/ r.tag = "Err" THEN r
        ELSE Pushed(<<r.token>>, r.rem)

\* The loop of TokenStream::new with every LexError propagated.
new_loop_NoBreak(toks, rem) ==
    IF ~IsSome(rem) THEN Left(toks)
    ELSE LET s == substring(rem.val)
         IN  IF IsPanicStr(s) THEN Panic
             ELSE LET r == lex_token(s)
                  IN  IF IsPanic(r) \/ r.tag = "Err" THEN r
                      ELSE Pushed(Append(toks, r.token), r.rem)

\* The loop of TokenStream::new leaving on every LexError: the tokens
\* lexed before the error are handed on.
new_loop_BreakOnError(toks, rem) ==
    IF ~IsSome(rem) THEN Left(toks)
    ELSE LET s == substring(rem.val)
         IN  IF IsPanicStr(s) THEN Panic
             ELSE LET r == lex_token(s)
                  IN  IF IsPanic(r) THEN Panic
                      ELSE IF r.tag = "Err" THEN Left(toks)
                      ELSE Pushed(Append(toks, r.token), r.rem)

\* One pass of `while let Some(span) = remaining { .. }` in TokenStream::new.
new_loop(toks, rem) ==
    IF ~IsSome(rem) THEN Left(toks)
    ELSE LET s == substring(rem.val)
         IN  IF IsPanicStr(s) THEN Panic
             ELSE LET r == lex_token(s)
                  IN  IF IsPanic(r) THEN Panic
                      ELSE IF r.tag = "Err"
                      THEN IF r.err = LexEndOfInput THEN Left(toks) ELSE r
                      ELSE Pushed(Append(toks, r.token), r.rem)

----------------------------------------------------------------------------
(* TokenStream cursor *)

\* self.tokens[self.index]: indexing a Vec out of range panics.
TokenAt(toks, i) == IF i < Len(toks) THEN Some(toks[i + 1]) ELSE Panic

\* TokenStream::peek
peek(toks, i) == IF i < Len(toks) THEN TokenAt(toks, i) ELSE None

\* TokenStream::next that advances even when no token is left.
next_AlwaysAdvance(toks, i) == [ret |-> peek(toks, i), index |-> i + 1]

\* TokenStream::next: the token returned and the index afterwards.
next(toks, i) ==
    LET token == peek(toks, i)
    IN  [ret |-> token, index |-> IF IsSome(token) THEN i + 1 ELSE i]

----------------------------------------------------------------------------
(* ParseError, expect_token, the closures of RenderPipelineConfig::parse *)

\* A quoted Rust string literal as a sequence of code points.
Str_render_pipeline == <<"r", "e", "n", "d", "e", "r", "_", "p", "i", "p", "e", "l", "i", "n", "e">>
Str_name == <<"n", "a", "m", "e">>
Str_vs_entry == <<"v", "s", "_", "e", "n", "t", "r", "y">>
Str_fs_entry == <<"f", "s", "_", "e", "n", "t", "r", "y">>
Str_ident_name == <<"i", "d", "e", "n", "t", "_", "n", "a", "m", "e">>
Str_Some_String == <<"S", "o", "m", "e", " ", "S", "t", "r", "i", "n", "g">>

\* ParseError
ErrLex(e) == [type |-> "Lex", lex |-> e]
UnexpectedToken(found, expected) ==
    [type |-> "UnexpectedToken", found |-> found, expected |-> expected]
UnexpectedField(f) == [type |-> "UnexpectedField", field |-> f]
EndOfInput == [type |-> "EndOfInput"]
MissingField(f) == [type |-> "MissingField", field |-> f]
ExpectedEndOfInput(t) == [type |-> "ExpectedEndOfInput", found |-> t]

\* Result<_, ParseError>
Ok(x) == [tag |-> "Ok", val |-> x]
Err(e) == [tag |-> "Err", err |-> e]
Unit == <<>>

\* expect_token with found and expected exchanged in the error.
expect_token_Exchanged(toks, i, expected) ==
    LET n == next(toks, i)
    IN  [res |-> IF IsPanic(n.ret) THEN Panic
                 ELSE IF IsSome(n.ret)
                 THEN IF n.ret.val = expected THEN Ok(Unit)
                      ELSE Err(UnexpectedToken(expected, n.ret.val))
                 ELSE Err(EndOfInput),
         index |-> n.index]

\* expect_token: the Result and the cursor index afterwards.
expect_token(toks, i, expected) ==
    LET n == next(toks, i)
    IN  [res |-> IF IsPanic(n.ret) THEN Panic
                 ELSE IF IsSome(n.ret)
                 THEN IF n.ret.val = expected THEN Ok(Unit)
                      ELSE Err(UnexpectedToken(n.ret.val, expected))
                 ELSE Err(EndOfInput),
         index |-> n.index]

\* The closure parse_ident.
parse_ident(toks, i) ==
    LET n == next(toks, i)
    IN  [res |-> IF IsPanic(n.ret) THEN Panic
                 ELSE IF IsSome(n.ret)
                 THEN IF n.ret.val.type = "Ident" THEN Ok(n.ret.val.text)
                      ELSE Err(UnexpectedToken(n.ret.val, Ident(Str_ident_name)))
                 ELSE Err(EndOfInput),
         index |-> n.index]

\* The three Option<&str> slots parse_field writes through `field`.
Slots(n, v, f) == [name |-> n, vs_entry |-> v, fs_entry |-> f]

\* The slot selection with the two entry-point slots exchanged.
Assign_EntriesExchanged(slots, ident, s) ==
    IF ident = Str_name THEN [slots EXCEPT !.name = Some(s)]
    ELSE IF ident = Str_vs_entry THEN [slots EXCEPT !.fs_entry = Some(s)]
    ELSE [slots EXCEPT !.vs_entry = Some(s)]

\* The slot assignment keeping a value already written.
Assign_FirstWins(slots, ident, s) ==
    IF ident = Str_name
    THEN IF IsSome(slots.name) THEN slots ELSE [slots EXCEPT !.name = Some(s)]
    ELSE IF ident = Str_vs_entry
    THEN IF IsSome(slots.vs_entry) THEN slots ELSE [slots EXCEPT !.vs_entry = Some(s)]
    ELSE IF IsSome(slots.fs_entry) THEN slots ELSE [slots EXCEPT !.fs_entry = Some(s)]

\* `*field = Some(s)` for the slot the identifier selected.
Assign(slots, ident, s) ==
    IF ident = Str_name THEN [slots EXCEPT !.name = Some(s)]
    ELSE IF ident = Str_vs_entry THEN [slots EXCEPT !.vs_entry = Some(s)]
    ELSE [slots EXCEPT !.fs_entry = Some(s)]

\* The tail of parse_field once the slot is selected: `:` and the value.
parse_field_value(toks, i, slots, ident) ==
    LET colon == expect_token(toks, i, Colon)
    IN  IF IsPanic(colon.res) \/ colon.res.tag = "Err"
        THEN [res |-> colon.res, index |-> colon.index, slots |-> slots]
        ELSE LET n == next(toks, colon.index)
             IN  IF IsPanic(n.ret)
                 THEN [res |-> Panic, index |-> n.index, slots |-> slots]
                 ELSE IF ~IsSome(n.ret)
                 THEN [res |-> Err(EndOfInput), index |-> n.index, slots |-> slots]
                 ELSE IF n.ret.val.type = "String"
                 THEN [res |-> Ok(Unit), index |-> n.index,
                       slots |-> Assign(slots, ident, n.ret.val.text)]
                 ELSE [res |-> Err(UnexpectedToken(n.ret.val, String(Str_Some_String))),
                       index |-> n.index, slots |-> slots]

\* parse_field rejecting an unknown name only after `:` and the value.
parse_field_LateCheck(toks, i, slots) ==
    LET id == parse_ident(toks, i)
    IN  IF IsPanic(id.res) \/ id.res.tag = "Err"
        THEN [res |-> id.res, index |-> id.index, slots |-> slots]
        ELSE LET v == parse_field_value(toks, id.index, slots, id.res.val)
             IN  IF IsPanic(v.res) \/ v.res.tag = "Err" THEN v
                 ELSE IF id.res.val \notin {Str_name, Str_vs_entry, Str_fs_entry}
                 THEN [res |-> Err(UnexpectedField(id.res.val)), index |-> v.index,
                       slots |-> slots]
                 ELSE v

\* The closure parse_field: the Result, the cursor index and the slots afterwards.
parse_field(toks, i, slots) ==
    LET id == parse_ident(toks, i)
    IN  IF IsPanic(id.res) \/ id.res.tag = "Err"
        THEN [res |-> id.res, index |-> id.index, slots |-> slots]
        ELSE IF id.res.val \notin {Str_name, Str_vs_entry, Str_fs_entry}
        THEN [res |-> Err(UnexpectedField(id.res.val)), index |-> id.index,
              slots |-> slots]
        ELSE parse_field_value(toks, id.index, slots, id.res.val)

\* The final struct literal testing the slots in the opposite order.
finalize_ReverseOrder(slots) ==
    IF ~IsSome(slots.fs_entry) THEN Err(MissingField(Str_fs_entry))
    ELSE IF ~IsSome(slots.vs_entry) THEN Err(MissingField(Str_vs_entry))
    ELSE IF ~IsSome(slots.name) THEN Err(MissingField(Str_name))
    ELSE Ok([name |-> slots.name.val, vs_entry |-> slots.vs_entry.val,
             fs_entry |-> slots.fs_entry.val])

\* The struct literal that ends parse: the first empty slot in declaration
\* order is the MissingField reported.
finalize(slots) ==
    IF ~IsSome(slots.name) THEN Err(MissingField(Str_name))
    ELSE IF ~IsSome(slots.vs_entry) THEN Err(MissingField(Str_vs_entry))
    ELSE IF ~IsSome(slots.fs_entry) THEN Err(MissingField(Str_fs_entry))
    ELSE Ok([name |-> slots.name.val, vs_entry |-> slots.vs_entry.val,
             fs_entry |-> slots.fs_entry.val])

----------------------------------------------------------------------------
(* Input texts.  A text is described by a generator record and rendered to *)
(* code points; the program reads only the rendered text.                  *)

MaxFields == 4      \* longest field list of a generated record
MaxFrags == 3       \* longest run of free fragments
MaxNextCalls == 6   \* next() calls the cursor driver makes
MaxViewLen == 3     \* code points in a text of the view driver
MaxSkip == 4        \* largest argument the view driver passes to skip
MaxLexLen == 4      \* most code points of a text handed to lex_token

Str_foo == <<"f", "o", "o">>
FieldNames == {Str_name, Str_vs_entry, Str_fs_entry, Str_foo}
KnownNames == {Str_name, Str_vs_entry, Str_fs_entry}
Quoted(v) == <<QUOTE>> \o v \o <<QUOTE>>

\* The value written for the i-th field of a record: "A", "B", "C", "Ax",
\* "Bx", ..., a different string at every position.
ValOf(i) == <<(<<"A", "B", "C">>)[((i - 1) % 3) + 1]>> \o [k \in 1..((i - 1) \div 3) |-> "x"]

\* Fragments free text is put together from.
Frags == {<<"#">>, <<")">>, <<",">>, <<":">>, Str_name, Str_foo,
          Quoted(<<"A">>), <<QUOTE>>, <<NL>>, Utf8(EAcute), Utf8(Rocket)}

SeqsUpTo(S, n) == UNION {[1..k -> S] : k \in 0..n}

\* The three pieces of the i-th field and the comma that follows it.
FieldPieces(fields) ==
    [j \in 1..(4 * Len(fields)) |->
        LET f == fields[((j - 1) \div 4) + 1]
        IN  CASE (j - 1) % 4 = 0 -> f.fname
              [] (j - 1) % 4 = 1 -> <<":">>
              [] (j - 1) % 4 = 2 -> Quoted(f.val)
              [] OTHER -> <<",">>]

\* The lexemes of a generated text, in order.
Pieces(g) ==
    (IF g.head THEN <<(<<"#">>), Str_render_pipeline, (<<"(">>)>> ELSE <<>>)
    \o (IF g.fields = <<>> THEN <<>>
        ELSE SubSeq(FieldPieces(g.fields), 1, 4 * Len(g.fields) - 1))
    \o (IF g.trailing THEN <<(<<",">>)>> ELSE <<>>)
    \o (IF g.close THEN <<(<<")">>)>> ELSE <<>>)
    \o g.tail

WsStyles == {"none", "mixed"}

\* The white space written after the i-th piece (before the first for i = 0).
Sep(style, i) ==
    CASE style = "none" -> <<>>
      [] OTHER -> CASE i % 3 = 0 -> <<NL, " ", " ">>
                    [] i % 3 = 1 -> Utf8(Nbsp)
                    [] OTHER -> <<TAB, NL>>

RECURSIVE Join(_, _, _)
Join(pieces, style, i) ==
    IF i > Len(pieces) THEN <<>>
    ELSE pieces[i] \o Sep(style, i) \o Join(pieces, style, i + 1)

Render(g) == Sep(g.ws, 0) \o Join(Pieces(g), g.ws, 1)

\* The field list that writes the given names in order.
FieldsNamed(names) == [i \in 1..Len(names) |-> [fname |-> names[i], val |-> ValOf(i)]]
GoldenFields == FieldsNamed(<<Str_name, Str_vs_entry, Str_fs_entry>>)

\* Well-formed records with any field list: the fields in any order, fields
\* missing, unknown or repeated, any white space between the lexemes.
Records ==
    [head : {TRUE},
     fields : {FieldsNamed(names) : names \in SeqsUpTo(FieldNames, MaxFields)},
     trailing : BOOLEAN, close : {TRUE}, tail : {<<>>}, ws : WsStyles]

\* Free text: nothing, an opened record or a record with its three fields
\* written, followed by any fragments.
FreeTexts ==
    [head : {FALSE}, fields : {<<>>}, trailing : {FALSE}, close : {FALSE},
     tail : SeqsUpTo(Frags, MaxFrags), ws : {"none"}]
    \cup [head : {TRUE}, fields : {<<>>, GoldenFields}, trailing : {FALSE},
          close : {FALSE}, tail : SeqsUpTo(Frags, MaxFrags), ws : {"none"}]

Gens == Records \cup FreeTexts

NoGen == [head |-> FALSE, fields |-> <<>>, trailing |-> FALSE, close |-> FALSE,
          tail |-> <<>>, ws |-> "none"]

----------------------------------------------------------------------------
(* RenderPipelineConfig::parse as a state machine *)

Idle == [op |-> "none"]
NoView == NewSpannedStr(<<>>, 0, 0)

Init ==
    /\ gen \in Gens
    /\ src = Render(gen)
    /\ pc = "start"
    /\ rest = None
    /\ tokens = <<>>
    /\ index = 0
    /\ name = None
    /\ vs_entry = None
    /\ fs_entry = None
    /\ result = None
    /\ calls = 0
    /\ last = Idle
    /\ view = NoView
    /\ vlast = Idle

driver == <<calls, last, view, vlast>>

\* `?` on an Err or a panic: parse returns.
Return(r) ==
    /\ pc' = "done"
    /\ result' = r

\* What a pass of TokenStream::new does to the state; parse's `?` turns a
\* LexError into ParseError::Lex.
LexPass(r) ==
    IF IsPanic(r) THEN Return(Panic) /\ UNCHANGED <<rest, tokens>>
    ELSE IF r.tag = "Err"
    THEN Return(Err(ErrLex(r.err))) /\ UNCHANGED <<rest, tokens>>
    ELSE /\ tokens' = r.tokens
         /\ rest' = r.rest
         /\ pc' = IF r.tag = "Pushed" THEN "lexing" ELSE "hash"
         /\ UNCHANGED result

\* TokenStream::new(src)?: the first lex_token and push.
LexFirst ==
    /\ pc = "start"
    /\ \E r \in {new_first(src)} : LexPass(r)
    /\ UNCHANGED <<gen, src, index, name, vs_entry, fs_entry, driver>>

\* TokenStream::new(src)?: one pass of the loop; leaving it returns
\* Ok(Self { tokens, index: 0 }).
LexNext ==
    /\ pc = "lexing"
    /\ \E r \in {new_loop(tokens, rest)} : LexPass(r)
    /\ UNCHANGED <<gen, src, index, name, vs_entry, fs_entry, driver>>

\* An expect_token(..)? step: on Ok go on at pc `to`.
Expect(at, expected, to) ==
    /\ pc = at
    /\ \E e \in {expect_token(tokens, index, expected)} :
           /\ index' = e.index
           /\ IF IsPanic(e.res) \/ e.res.tag = "Err"
              THEN Return(e.res)
              ELSE pc' = to /\ UNCHANGED result
    /\ UNCHANGED <<gen, src, rest, tokens, name, vs_entry, fs_entry, driver>>

\* expect_token(&mut tokens, lex::Token::Hash)?;
ExpectHash == Expect("hash", Hash, "tag")

\* expect_token(&mut tokens, lex::Token::Ident("render_pipeline"))?;
ExpectTag == Expect("tag", Ident(Str_render_pipeline), "lparen")

\* parse_struct: expect `(`, then `if let Some(Ident(_)) = tokens.peek()`.
StructOpen ==
    /\ pc = "lparen"
    /\ \E e \in {expect_token(tokens, index, LeftParen)} :
       \E p \in {peek(tokens, e.index)} :
           /\ index' = e.index
           /\ IF IsPanic(e.res) \/ e.res.tag = "Err" THEN Return(e.res)
              ELSE IF IsPanic(p) THEN Return(Panic)
              ELSE /\ pc' = IF IsSome(p) /\ p.val.type = "Ident"
                            THEN "field" ELSE "rparen"
                   /\ UNCHANGED result
    /\ UNCHANGED <<gen, src, rest, tokens, name, vs_entry, fs_entry, driver>>

\* parse_field(&mut tokens)?;
ParseField ==
    /\ pc = "field"
    /\ \E f \in {parse_field(tokens, index, Slots(name, vs_entry, fs_entry))} :
           /\ index' = f.index
           /\ name' = f.slots.name
           /\ vs_entry' = f.slots.vs_entry
           /\ fs_entry' = f.slots.fs_entry
           /\ IF IsPanic(f.res) \/ f.res.tag = "Err"
              THEN Return(f.res)
              ELSE pc' = "loop" /\ UNCHANGED result
    /\ UNCHANGED <<gen, src, rest, tokens, driver>>

\* The loop of parse_struct without the test for `)` after a comma: every
\* comma is followed by parse_field.
FieldLoop_NoTrailingComma ==
    /\ pc = "loop"
    /\ \E p \in {peek(tokens, index)} :
           IF IsPanic(p) THEN Return(Panic) /\ UNCHANGED index
           ELSE IF IsSome(p) /\ p.val = Comma
           THEN \E n \in {next(tokens, index)} :
                    /\ index' = n.index
                    /\ pc' = "field"
                    /\ UNCHANGED result
           ELSE pc' = "rparen" /\ UNCHANGED <<index, result>>
    /\ UNCHANGED <<gen, src, rest, tokens, name, vs_entry, fs_entry, driver>>

\* while let Some(Comma) = tokens.peek() { next(); if peek() is `)` break; .. }
FieldLoop ==
    /\ pc = "loop"
    /\ \E p \in {peek(tokens, index)} :
           IF IsPanic(p) THEN Return(Panic) /\ UNCHANGED index
           ELSE IF IsSome(p) /\ p.val = Comma
           THEN \E n \in {next(tokens, index)} :
                \E q \in {peek(tokens, n.index)} :
                    /\ index' = n.index
                    /\ IF IsPanic(q) THEN Return(Panic)
                       ELSE /\ pc' = IF IsSome(q) /\ q.val = RightParen
                                     THEN "rparen" ELSE "field"
                            /\ UNCHANGED result
           ELSE pc' = "rparen" /\ UNCHANGED <<index, result>>
    /\ UNCHANGED <<gen, src, rest, tokens, name, vs_entry, fs_entry, driver>>

\* expect_token(&mut tokens, lex::Token::RightParen)?; which ends parse_struct
StructClose == Expect("rparen", RightParen, "end")

\* The end-of-input test made only once the slots are known to be filled.
CheckEnd_AfterFinalize ==
    /\ pc = "end"
    /\ \E n \in {next(tokens, index)} :
       \E f \in {finalize(Slots(name, vs_entry, fs_entry))} :
           /\ index' = n.index
           /\ IF IsPanic(n.ret) THEN Return(Panic)
              ELSE IF f.tag = "Err" THEN Return(f)
              ELSE IF IsSome(n.ret) THEN Return(Err(ExpectedEndOfInput(n.ret.val)))
              ELSE pc' = "finalize" /\ UNCHANGED result
    /\ UNCHANGED <<gen, src, rest, tokens, name, vs_entry, fs_entry, driver>>

\* if let Some(t) = tokens.next() { return Err(ExpectedEndOfInput(t)) }
CheckEnd ==
    /\ pc = "end"
    /\ \E n \in {next(tokens, index)} :
           /\ index' = n.index
           /\ IF IsPanic(n.ret) THEN Return(Panic)
              ELSE IF IsSome(n.ret) THEN Return(Err(ExpectedEndOfInput(n.ret.val)))
              ELSE pc' = "finalize" /\ UNCHANGED result
    /\ UNCHANGED <<gen, src, rest, tokens, name, vs_entry, fs_entry, driver>>

\* Ok(Self { name: name.ok_or_else(..)?, .. })
Finalize ==
    /\ pc = "finalize"
    /\ Return(finalize(Slots(name, vs_entry, fs_entry)))
    /\ UNCHANGED <<gen, src, rest, tokens, index, name, vs_entry, fs_entry, driver>>

Next ==
    \/ LexFirst
    \/ LexNext
    \/ ExpectHash
    \/ ExpectTag
    \/ StructOpen
    \/ ParseField
    \/ FieldLoop
    \/ StructClose
    \/ CheckEnd
    \/ Finalize

Spec == Init /\ [][Next]_vars

----------------------------------------------------------------------------
(* A caller of TokenStream: new, then peek and next in any order *)

\* The texts the cursor is driven over: fragments in any order, no header.
CursorGens == {g \in FreeTexts : ~g.head}

InitCursor ==
    /\ gen \in CursorGens
    /\ src = Render(gen)
    /\ pc = "start"
    /\ rest = None
    /\ tokens = <<>>
    /\ index = 0
    /\ name = None
    /\ vs_entry = None
    /\ fs_entry = None
    /\ result = None
    /\ calls = 0
    /\ last = Idle
    /\ view = NoView
    /\ vlast = Idle

\* The stream is built: TokenStream::new returned Ok(Self { tokens, index: 0 }).
Built == pc = "hash"

\* tokens.peek(): takes &self, returns the token under the cursor.
Peek ==
    /\ Built
    /\ \E r \in {peek(tokens, index)} :
           last' = [op |-> "peek", ret |-> r, at |-> index]
    /\ UNCHANGED <<gen, src, pc, rest, tokens, index, name, vs_entry, fs_entry,
                   result, calls, view, vlast>>

\* tokens.next(): takes &mut self, returns the token and moves the cursor.
NextCall ==
    /\ Built
    /\ calls < MaxNextCalls
    /\ \E r \in {next(tokens, index)} :
           /\ index' = r.index
           /\ last' = [op |-> "next", ret |-> r.ret, at |-> index]
    /\ calls' = calls + 1
    /\ UNCHANGED <<gen, src, pc, rest, tokens, name, vs_entry, fs_entry,
                   result, view, vlast>>

NextCursor ==
    \/ LexFirst
    \/ LexNext
    \/ Peek
    \/ NextCall

SpecCursor == InitCursor /\ [][NextCursor]_vars

----------------------------------------------------------------------------
(* A caller of SpannedStr: new, then skip and remaining in any order *)

ViewChars == {"a", EAcute, Rocket}

RECURSIVE Encode(_)
\* The UTF-8 bytes of a sequence of code points.
Encode(cs) == IF cs = <<>> THEN <<>> ELSE Utf8(Head(cs)) \o Encode(Tail(cs))

ViewTexts == {Encode(cs) : cs \in SeqsUpTo(ViewChars, MaxViewLen)}

Boundaries(s) == {b \in 0..Len(s) : IsCharBoundary(s, b)}

\* SpannedStr::new(src, start_byte, end_byte) with both offsets on code-point
\* boundaries of the buffer.
InitView ==
    /\ src \in ViewTexts
    /\ \E a \in Boundaries(src) : \E b \in Boundaries(src) :
           view = NewSpannedStr(src, a, b)
    /\ gen = NoGen
    /\ pc = "view"
    /\ rest = None
    /\ tokens = <<>>
    /\ index = 0
    /\ name = None
    /\ vs_entry = None
    /\ fs_entry = None
    /\ result = None
    /\ calls = 0
    /\ last = Idle
    /\ vlast = Idle

\* What a call on the view leaves: the receiver, the argument, what was
\* returned; a returned view is the one the next call is made on.
ViewCall(op, n, r) ==
    /\ vlast' = [op |-> op, n |-> n, of |-> view, ret |-> r]
    /\ view' = IF IsSome(r) THEN r.val ELSE view
    /\ UNCHANGED <<gen, src, pc, rest, tokens, index, name, vs_entry, fs_entry,
                   result, calls, last>>

\* view.skip(n)
SkipCall ==
    /\ pc = "view"
    /\ \E n \in 0..MaxSkip : \E r \in {skip(view, n)} : ViewCall("skip", n, r)

\* view.remaining()
RemainingCall ==
    /\ pc = "view"
    /\ \E r \in {remaining(view)} : ViewCall("remaining", 0, r)

NextView ==
    \/ SkipCall
    \/ RemainingCall

SpecView == InitView /\ [][NextView]_vars

----------------------------------------------------------------------------
(* A caller of lex_token: a text, then the tail it returned, and so on *)

LexChars == {"a", "_", "1", "#", " ", NL, QUOTE, EAcute, Nbsp, Rocket}

LexTexts == {Encode(cs) : cs \in SeqsUpTo(LexChars, MaxLexLen)}

InitLex ==
    /\ src \in LexTexts
    /\ gen = NoGen
    /\ pc = "lex"
    /\ rest = None
    /\ tokens = <<>>
    /\ index = 0
    /\ name = None
    /\ vs_entry = None
    /\ fs_entry = None
    /\ result = None
    /\ calls = 0
    /\ last = Idle
    /\ view = NoView
    /\ vlast = Idle

\* The text the next lex_token call is made on: src, then
\* span.substring() of the remainder returned last, as TokenStream::new does.
LexInput == IF last = Idle THEN src ELSE substring(rest.val)

\* lex_token(input): what was passed and what came back; a token returned
\* is pushed and the remainder kept for the next call.
LexTokenCall ==
    /\ pc = "lex"
    /\ last = Idle \/ IsSome(rest)
    /\ \E r \in {lex_token(LexInput)} :
           /\ last' = [op |-> "lex_token", input |-> LexInput, ret |-> r]
           /\ IF ~IsPanic(r) /\ r.tag = "Ok"
              THEN tokens' = Append(tokens, r.token) /\ rest' = r.rem
              ELSE tokens' = tokens /\ rest' = None
    /\ UNCHANGED <<gen, src, pc, index, name, vs_entry, fs_entry, result,
                   calls, view, vlast>>

NextLex == LexTokenCall

SpecLex == InitLex /\ [][NextLex]_vars

----------------------------------------------------------------------------
(* What the properties read off a state *)

Done == pc = "done"

\* parse returned because TokenStream::new failed.
LexFailed == result.tag = "Err" /\ result.err.type = "Lex"

\* parse returned after TokenStream::new succeeded: tokens is the whole
\* token sequence of the input.
Parsed == Done /\ ~IsPanic(result) /\ ~LexFailed

\* A generated text that is a closed record with nothing after it.
IsRecord(g) == g.head /\ g.close /\ g.tail = <<>>

\* The token a lexeme of a generated record stands for.
PieceToken(p) ==
    IF p[1] = QUOTE THEN String(SubSeq(p, 2, Len(p) - 1))
    ELSE IF p[1] \in {"#", "(", ")", ",", ":"} THEN Punct(p[1])
    ELSE Ident(p)

\* The tokens of a generated record, read off its lexemes.
RecordTokens(g) == [i \in 1..Len(Pieces(g)) |-> PieceToken(Pieces(g)[i])]

\* The value a generated record writes for a field named once.
WrittenFor(g, n) == g.fields[CHOOSE i \in 1..Len(g.fields) : g.fields[i].fname = n].val

\* The grammar of the record, on tokens.  The fields start at token 4 and
\* take four tokens each: name, `:`, string, `,`.
IsFieldToken(toks, i) ==
    CASE (i - 4) % 4 = 0 -> toks[i].type = "Ident" /\ toks[i].text \in KnownNames
      [] (i - 4) % 4 = 1 -> toks[i] = Colon
      [] (i - 4) % 4 = 2 -> toks[i].type = "String"
      [] OTHER -> toks[i] = Comma

HasHeader(toks) ==
    /\ Len(toks) >= 3
    /\ toks[1] = Hash
    /\ toks[2] = Ident(Str_render_pipeline)
    /\ toks[3] = LeftParen

\* toks[1..k] is `# render_pipeline ( field-list )`: the field list is empty
\* or fields separated by commas, with or without a comma after the last.
IsRecordPrefix(toks, k) ==
    /\ k \in 4..Len(toks)
    /\ HasHeader(toks)
    /\ toks[k] = RightParen
    /\ \A i \in 4..(k - 1) : IsFieldToken(toks, i)
    /\ (k - 4) % 4 \in {0, 3}

\* The positions in toks[4..k] where a field starts.
FieldStarts(k) == {i \in 4..k : (i - 4) % 4 = 0}

\* The positions before the `)` at k where the field named n is written.
Occurrences(toks, k, n) == {i \in FieldStarts(k - 1) : toks[i] = Ident(n)}

Greatest(S) == CHOOSE i \in S : \A j \in S : j <= i

\* The string written at the last occurrence of the field named n.
LastWritten(toks, k, n) == toks[Greatest(Occurrences(toks, k, n)) + 2].text

\* The first of name, vs_entry, fs_entry that toks[4..k] does not write.
FirstAbsent(toks, k) ==
    IF Occurrences(toks, k, Str_name) = {} THEN Str_name
    ELSE IF Occurrences(toks, k, Str_vs_entry) = {} THEN Str_vs_entry
    ELSE Str_fs_entry

AllWritten(toks, k) == \A n \in KnownNames : Occurrences(toks, k, n) /= {}

AllWhitespace(s) == \A i \in 1..Len(s) : s[i] = Cont \/ is_whitespace(s[i])

----------------------------------------------------------------------------
(* C1 *)

IsPermutedRecord(g) ==
    /\ IsRecord(g)
    /\ Len(g.fields) = 3
    /\ {g.fields[i].fname : i \in 1..3} = KnownNames

\* C1: a record that writes name, vs_entry and fs_entry once each, in any
\* order, with or without a comma before `)`, with any white space between
\* the lexemes, parses to Ok with each field holding the string written for it.
C1_PermutedRecordParses ==
    (Done /\ IsPermutedRecord(gen)) =>
        /\ result.tag = "Ok"
        /\ result.val = [name |-> WrittenFor(gen, Str_name),
                         vs_entry |-> WrittenFor(gen, Str_vs_entry),
                         fs_entry |-> WrittenFor(gen, Str_fs_entry)]

C1_Witness ==
    /\ Done
    /\ IsPermutedRecord(gen)
    /\ gen.trailing
    /\ gen.ws = "mixed"
    /\ gen.fields[1].fname = Str_fs_entry
    /\ gen.fields[2].fname = Str_name
    /\ result.tag = "Ok"
    /\ result.val.name = <<"B">>

----------------------------------------------------------------------------
(* C2 *)

\* C2: when the whole token sequence is a well-formed record and a
\* mandatory field is not written, parse fails with MissingField of the
\* first of name, vs_entry, fs_entry that is not written, whatever the order
\* of the fields that are.
C2_MissingFieldInDeclarationOrder ==
    (Parsed /\ IsRecordPrefix(tokens, Len(tokens)) /\ ~AllWritten(tokens, Len(tokens))) =>
        result = Err(MissingField(FirstAbsent(tokens, Len(tokens))))

C2_Witness ==
    /\ Parsed
    /\ IsRecordPrefix(tokens, Len(tokens))
    /\ Len(tokens) >= 11
    /\ tokens[4] = Ident(Str_fs_entry)
    /\ tokens[8] = Ident(Str_name)
    /\ result = Err(MissingField(Str_vs_entry))

----------------------------------------------------------------------------
(* C3 *)

\* The token at p is where a field starts, every field before it is
\* well-formed and followed by a comma, and it is an identifier that is not
\* a field name.
UnknownFieldAt(toks, p) ==
    /\ HasHeader(toks)
    /\ p \in FieldStarts(Len(toks))
    /\ \A i \in 4..(p - 1) : IsFieldToken(toks, i)
    /\ toks[p].type = "Ident"
    /\ toks[p].text \notin KnownNames

\* C3: when the parser reads a field name that is not name, vs_entry or
\* fs_entry, parse fails with UnexpectedField of that name, whatever follows
\* the name (a missing or wrong `:` or value included).
C3_UnknownFieldRejectedAtName ==
    Parsed =>
        \A p \in 4..Len(tokens) :
            UnknownFieldAt(tokens, p) => result = Err(UnexpectedField(tokens[p].text))

C3_Witness ==
    /\ Parsed
    /\ UnknownFieldAt(tokens, 4)
    /\ Len(tokens) >= 5
    /\ tokens[5] /= Colon
    /\ result = Err(UnexpectedField(Str_foo))

----------------------------------------------------------------------------
(* C4 *)

\* C4: when a prefix of the token sequence is `# render_pipeline (
\* field-list )` and a token follows it, parse fails with
\* ExpectedEndOfInput of that token, also when mandatory fields are missing.
C4_TrailingTokenRejected ==
    Parsed =>
        \A k \in 4..(Len(tokens) - 1) :
            IsRecordPrefix(tokens, k) => result = Err(ExpectedEndOfInput(tokens[k + 1]))

C4_Witness ==
    /\ Parsed
    /\ Len(tokens) = 5
    /\ IsRecordPrefix(tokens, 4)
    /\ name = None
    /\ result = Err(ExpectedEndOfInput(RightParen))

----------------------------------------------------------------------------
(* C5 *)

Repeats(toks, k) == \E n \in KnownNames : Cardinality(Occurrences(toks, k, n)) > 1

\* C5: when the whole token sequence is a well-formed record in which a
\* field name is written more than once, the repetition raises no error:
\* the result is Ok with every field holding the string of its last
\* occurrence, or MissingField when one of the three is not written at all.
C5_LastOccurrenceWins ==
    (Parsed /\ IsRecordPrefix(tokens, Len(tokens)) /\ Repeats(tokens, Len(tokens))) =>
        IF AllWritten(tokens, Len(tokens))
        THEN /\ result.tag = "Ok"
             /\ result.val = [name |-> LastWritten(tokens, Len(tokens), Str_name),
                              vs_entry |-> LastWritten(tokens, Len(tokens), Str_vs_entry),
                              fs_entry |-> LastWritten(tokens, Len(tokens), Str_fs_entry)]
        ELSE result.tag = "Err" /\ result.err.type = "MissingField"

C5_Witness ==
    /\ Parsed
    /\ IsRecordPrefix(tokens, Len(tokens))
    /\ Cardinality(Occurrences(tokens, Len(tokens), Str_name)) = 2
    /\ tokens[4] = Ident(Str_name)
    /\ result.tag = "Ok"
    /\ result.val.name /= tokens[6].text

----------------------------------------------------------------------------
(* C6 *)

\* C6: the first token must be `#` and the second the identifier
\* render_pipeline; another token there fails with UnexpectedToken of the
\* token found and the token expected, and a token sequence that ends
\* before the second token fails with the syntactic EndOfInput.
C6_HeaderExpected ==
    Parsed =>
        /\ tokens[1] /= Hash => result = Err(UnexpectedToken(tokens[1], Hash))
        /\ (tokens[1] = Hash /\ Len(tokens) = 1) => result = Err(EndOfInput)
        /\ (tokens[1] = Hash /\ Len(tokens) >= 2 /\ tokens[2] /= Ident(Str_render_pipeline)) =>
               result = Err(UnexpectedToken(tokens[2], Ident(Str_render_pipeline)))

C6_Witness ==
    /\ Parsed
    /\ Len(tokens) >= 2
    /\ tokens[1] = Hash
    /\ tokens[2] = Ident(Str_name)
    /\ result = Err(UnexpectedToken(Ident(Str_name), Ident(Str_render_pipeline)))

----------------------------------------------------------------------------
(* C7 *)

\* C7: lex_token and TokenStream::new fail with EndOfInput exactly when the
\* input is empty or all white space; once a token is pushed, a tail of
\* white space ends the loop with the tokens pushed so far, and the tokens
\* of a record followed by white space are its lexemes.
C7_EndOfInputOnlyForBlankInput ==
    /\ [](Done => (result = Err(ErrLex(LexEndOfInput)) <=> AllWhitespace(src)))
    /\ [](pc = "start" => (lex_token(src) = LexErr(LexEndOfInput) <=> AllWhitespace(src)))
    /\ []((pc = "hash" /\ IsRecord(gen)) => tokens = RecordTokens(gen))
    /\ [][(pc = "lexing" /\ IsSome(rest) /\ AllWhitespace(substring(rest.val))) =>
              (pc' = "hash" /\ tokens' = tokens /\ index' = 0)]_vars

C7_Witness ==
    /\ pc = "hash"
    /\ IsRecord(gen)
    /\ gen.ws = "mixed"
    /\ Len(src) >= 2
    /\ src[Len(src) - 1] = Nbsp
    /\ Len(tokens) = 16
    /\ tokens[16] = RightParen

----------------------------------------------------------------------------
(* C8 *)

\* What peek returns at cursor position i of a stream of the given tokens.
UnderCursor(toks, i) == IF i < Len(toks) THEN Some(toks[i + 1]) ELSE None

\* C8: for a TokenStream and any interleaving of peek and next: peek leaves
\* the cursor where it is; next returns what peek would return and moves
\* the cursor by one iff a token was there; so the k-th next returns
\* tokens[k-1] for k <= L and None for k > L, the cursor never moves back
\* and never passes L, and after a None every later peek and next is None.
C8_CursorForwardOnly ==
    /\ [](Built => index <= Len(tokens))
    /\ []((Built /\ last.op = "next") =>
              last.ret = (IF calls <= Len(tokens) THEN Some(tokens[calls]) ELSE None))
    /\ []((Built /\ last.op = "peek") => last.ret = UnderCursor(tokens, calls))
    /\ [][(Built /\ last' /= last /\ last'.op = "peek") =>
              (index' = index /\ last'.ret = UnderCursor(tokens, index))]_vars
    /\ [][(Built /\ last'.op = "next" /\ calls' /= calls) =>
              /\ last'.ret = UnderCursor(tokens, index)
              /\ index' = (IF IsSome(last'.ret) THEN index + 1 ELSE index)]_vars
    /\ [][Built => index' >= index]_vars
    /\ [][(Built /\ last.op /= "none" /\ last.ret = None) => last'.ret = None]_vars

C8_Witness ==
    /\ Built
    /\ Len(tokens) = 3
    /\ calls = 5
    /\ index = 3
    /\ last.op = "peek"
    /\ last.ret = None

----------------------------------------------------------------------------
(* C9 *)

\* The bytes of s from its n-th code point (n = 0 is the first) onward.
FromChar(s, n) == SubSeq(s, OffsetOfChar(s, n) + 1, Len(s))

\* C9: for a view whose substring has k code points and every n, skip(n)
\* returns Some iff n < k, and the substring of the view it returns is the
\* receiver's substring from its n-th code point onward, nothing more and
\* nothing less, also when the receiver's span ends before the buffer does.
C9_SkipReturnsSuffix ==
    vlast.op = "skip" =>
        LET s == substring(vlast.of)
            k == CharCount(s)
        IN  /\ ~IsPanic(vlast.ret)
            /\ IsSome(vlast.ret) <=> vlast.n < k
            /\ IsSome(vlast.ret) => substring(vlast.ret.val) = FromChar(s, vlast.n)

----------------------------------------------------------------------------
(* C10 *)

\* C10: parse and TokenStream::new never panic on any input: no slice is
\* taken out of bounds or inside a code point, no token index is out of
\* range, and what parse returns is one record or one error.
C10_NeverPanics ==
    /\ ~IsPanic(result)
    /\ Done <=> result /= None
    /\ Done => result.tag \in {"Ok", "Err"}
    /\ IsSome(rest) => ~IsPanicStr(substring(rest.val))

C10_Witness ==
    /\ Done
    /\ \E i \in 1..Len(tokens) : \E j \in 1..Len(tokens[i].text) : tokens[i].text[j] = Cont
    /\ \E i \in 1..Len(src) : src[i] = Rocket
    /\ result.tag = "Err"

----------------------------------------------------------------------------
(* What the lex_token properties read off a text *)

\* The positions of the first bytes of the code points of s.
Starts(s) == {k \in 1..Len(s) : s[k] /= Cont}

\* The position of the first code point of s that is not white space, 0 if
\* there is none.
FirstMeaningful(s) ==
    LET S == {k \in Starts(s) : ~is_whitespace(s[k])}
    IN  IF S = {} THEN 0 ELSE Least(S)

\* The position of the first code point of s after position p that is not
\* in the set allowed, Len(s) + 1 if every one is.
RunEnd(s, p, allowed) ==
    LET S == {k \in Starts(s) : k > p /\ s[k] \notin allowed}
    IN  IF S = {} THEN Len(s) + 1 ELSE Least(S)

\* The bytes of s from position p to its end.
TailFrom(s, p) == SubSeq(s, p, Len(s))

\* The remainder lex_token returns when the token ends before position p of
\* the input s: none at the end of s, otherwise a view whose text is s from p.
RemainderIs(rem, s, p) ==
    IF p > Len(s) THEN rem = None
    ELSE IsSome(rem) /\ substring(rem.val) = TailFrom(s, p)

LexCalled == last.op = "lex_token"

----------------------------------------------------------------------------
(* C11 *)

\* C11: when the first character of the input of lex_token that is not
\* white space is a quote: if the run after it of characters that are
\* neither quote nor newline is followed by a quote, the result is
\* String(that run), also when the run is empty, and the remainder starts
\* after the closing quote (None when the closing quote is the last
\* character); if the input ends or a newline comes first, the result is
\* NonterminatedString.
C11_StringLiteral ==
    LexCalled =>
        LET s == last.input
            q == FirstMeaningful(s)
            e == RunEnd(s, q, (LexChars \cup {Cont}) \ {QUOTE, NL})
        IN  (q > 0 /\ s[q] = QUOTE) =>
                IF e <= Len(s) /\ s[e] = QUOTE
                THEN /\ last.ret.tag = "Ok"
                     /\ last.ret.token = String(SubSeq(s, q + 1, e - 1))
                     /\ RemainderIs(last.ret.rem, s, e + 1)
                ELSE last.ret = LexErr(NonterminatedString)

C11_Witness ==
    /\ LexCalled
    /\ last.input = <<NL, QUOTE, Rocket, Cont, Cont, Cont, QUOTE>>
    /\ last.ret.tag = "Ok"
    /\ last.ret.token = String(<<Rocket, Cont, Cont, Cont>>)
    /\ last.ret.rem = None

----------------------------------------------------------------------------
(* C12 *)

IdentStartChars == Letters \cup {"_"}
IdentChars == Letters \cup Digits \cup {"_"}

\* C12: when the first character of the input of lex_token that is not
\* white space is alphabetic or `_`, the result is Ident of the longest run
\* of alphanumeric or `_` characters that starts there (the rest of the
\* input when every character is one), and the remainder begins at the
\* first character after the run; so an identifier [A-Za-z_][A-Za-z0-9_]*
\* with white space around it is returned exactly.
C12_IdentifierMaximalRun ==
    LexCalled =>
        LET s == last.input
            q == FirstMeaningful(s)
            e == RunEnd(s, q, IdentChars)
        IN  (q > 0 /\ s[q] \in IdentStartChars) =>
                /\ last.ret.tag = "Ok"
                /\ last.ret.token = Ident(SubSeq(s, q, e - 1))
                /\ RemainderIs(last.ret.rem, s, e)

C12_Witness ==
    /\ LexCalled
    /\ last.input = <<Nbsp, Cont, "_", "1", NL>>
    /\ last.ret.tag = "Ok"
    /\ last.ret.token = Ident(<<"_", "1">>)
    /\ IsSome(last.ret.rem)
    /\ substring(last.ret.rem.val) = <<NL>>

----------------------------------------------------------------------------
(* C13 *)

TokenReturned == LexCalled /\ last.ret.tag = "Ok"

HasPayload(tok) == tok.type \in {"Ident", "String"}

\* substring() of the span lex_token made the token from: `data` for an
\* identifier or a string (the payload), `span` for punctuation (the input
\* from the punctuation character on).
ProducingText(s, tok) ==
    IF HasPayload(tok) THEN tok.text ELSE TailFrom(s, FirstMeaningful(s))

\* The part of the input s the token was read from: from its first
\* character to where the remainder begins, the quotes of a string included.
Lexeme(s, rem) ==
    LET q == FirstMeaningful(s)
    IN  IF IsSome(rem)
        THEN SubSeq(s, q, Len(s) - Len(substring(rem.val)))
        ELSE TailFrom(s, q)

\* lex_token(text) returns the token tok.
Retokenizes(text, tok) ==
    LET r == lex_token(text)
    IN  r.tag = "Ok" /\ r.token = tok

\* C13 as stated: lex_token on the substring() of the span that produced a
\* token returns that token.
C13_RoundTrip ==
    TokenReturned => Retokenizes(ProducingText(last.input, last.ret.token), last.ret.token)

\* C13: lex_token on the substring() of the span that produced a token
\* returns that token when the token is an identifier or punctuation; for a
\* string the span is the payload without its quotes and lex_token never
\* returns the string from it; lex_token on the text a token was read from,
\* quotes included, returns the token for every kind.
C13_RoundTripOfLexeme ==
    TokenReturned =>
        LET s == last.input
            tok == last.ret.token
        IN  /\ Retokenizes(Lexeme(s, last.ret.rem), tok)
            /\ tok.type /= "String" => Retokenizes(ProducingText(s, tok), tok)
            /\ tok.type = "String" => ~Retokenizes(ProducingText(s, tok), tok)

C13_Witness ==
    /\ TokenReturned
    /\ last.input = <<" ", QUOTE, "a", QUOTE>>
    /\ last.ret.token = String(<<"a">>)
    /\ lex_token(last.ret.token.text) = LexOk(Ident(<<"a">>), None)
    /\ Lexeme(last.input, last.ret.rem) = <<QUOTE, "a", QUOTE>>

----------------------------------------------------------------------------
(* C14 *)

\* The whole token sequence of the input is a record with each of name,
\* vs_entry and fs_entry written at least once.
IsCompleteRecord(toks) == IsRecordPrefix(toks, Len(toks)) /\ AllWritten(toks, Len(toks))

\* C14: parse returns Ok if and only if the input lexes and its whole token
\* sequence is `# render_pipeline ( [ field (, field)* [,] ] )` with every
\* field a known name, `:` and a string, nothing after `)`, and each of
\* name, vs_entry, fs_entry written at least once.  So `(,)`, `,,`, two
\* fields with no comma between and a field list that starts with another
\* token are rejected, and one comma after the last field is accepted.
C14_OkIffGrammar ==
    Done => (result.tag = "Ok" <=> (Parsed /\ IsCompleteRecord(tokens)))

C14_Witness ==
    /\ Parsed
    /\ Len(tokens) = 17
    /\ IsRecordPrefix(SubSeq(tokens, 1, 15) \o <<RightParen>>, 16)
    /\ tokens[15] = Comma
    /\ tokens[16] = Comma
    /\ tokens[17] = RightParen
    /\ result = Err(UnexpectedToken(Comma, Ident(Str_ident_name)))

----------------------------------------------------------------------------
(* C15 *)

IsGenuine(e) == e.type \in {"InvalidChar", "NonterminatedString"}

RECURSIVE FirstLexError(_)
\* The first InvalidChar or NonterminatedString met when the text s is read
\* token by token from its start, None when the text is read to its end
\* without one.
FirstLexError(s) ==
    CHOOSE e \in {IF r.tag = "Err"
                  THEN IF IsGenuine(r.err) THEN Some(r.err) ELSE None
                  ELSE IF IsSome(r.rem) THEN FirstLexError(substring(r.rem.val))
                       ELSE None : r \in {lex_token(s)}} : TRUE

\* No step of the parser has been taken: the cursor is at 0 and no field is set.
ParserUntouched == index = 0 /\ name = None /\ vs_entry = None /\ fs_entry = None

\* C15: the whole input is lexed before any step of the parser.  When
\* reading the input meets an InvalidChar or a NonterminatedString, parse
\* returns the first of them in scan order wrapped as Lex, no step of the
\* parser having been taken, also when the tokens before it already break
\* the grammar; without one, the parser starts only after the last token.
C15_LexBeforeParse ==
    /\ Done =>
           LET e == FirstLexError(src)
           IN  IF IsSome(e)
               THEN result = Err(ErrLex(e.val)) /\ ParserUntouched
               ELSE ~(LexFailed /\ IsGenuine(result.err.lex))
    /\ pc \in {"start", "lexing"} => ParserUntouched
    /\ pc \notin {"start", "lexing", "done"} => rest = None

C15_Witness ==
    /\ Done
    /\ Len(tokens) = 4
    /\ tokens[2] = Ident(Str_render_pipeline)
    /\ tokens[4] = Ident(Str_foo)
    /\ result = Err(ErrLex(InvalidChar(Rocket)))
    /\ index = 0

----------------------------------------------------------------------------
(* C16 *)

\* ASCII code points are the ones of one byte.
IsAscii(c) == Utf8Len(c) = 1

\* The first character of the text that is not white space starts a token.
StartsToken(c) ==
    \/ is_alphabetic(c)
    \/ c \in {"_", "#", "(", ")", ",", ":", QUOTE}

\* lex_token fails with InvalidChar exactly when the first character that is
\* not white space starts no token, and the error carries that character.
InvalidCharIffNoTokenStart ==
    LexCalled =>
        LET s == last.input
            q == FirstMeaningful(s)
        IN  /\ (q > 0 /\ ~StartsToken(s[q])) => last.ret = LexErr(InvalidChar(s[q]))
            /\ (last.ret.tag = "Err" /\ last.ret.err.type = "InvalidChar") =>
                   (q > 0 /\ ~StartsToken(s[q]))

\* C16: lex_token fails with InvalidChar(c) exactly when the first character
\* c of its input that is not white space is not alphabetic, not `_`, not
\* punctuation of the grammar and not a quote; a digit there gives
\* InvalidChar of the digit, and every character outside ASCII gives
\* InvalidChar.
C16_InvalidChar ==
    /\ InvalidCharIffNoTokenStart
    /\ LexCalled =>
           LET s == last.input
               q == FirstMeaningful(s)
           IN  /\ (q > 0 /\ s[q] \in Digits) => last.ret = LexErr(InvalidChar(s[q]))
               /\ (q > 0 /\ ~IsAscii(s[q])) => last.ret = LexErr(InvalidChar(s[q]))

----------------------------------------------------------------------------
(* C17 *)

\* start_byte <= end_byte <= len(buffer), both on code-point boundaries.
ViewInvariant(v) ==
    /\ v.start_byte <= v.end_byte
    /\ v.end_byte <= Len(v.src)
    /\ IsCharBoundary(v.src, v.start_byte)
    /\ IsCharBoundary(v.src, v.end_byte)

\* remaining() is None when the span ends where the buffer ends, otherwise
\* the view from the span's end to the buffer's end.
RemainingIsTail(v) ==
    remaining(v) = IF v.end_byte = Len(v.src) THEN None
                   ELSE Some([src |-> v.src, start_byte |-> v.end_byte,
                              end_byte |-> Len(v.src)])

\* The views of a lex_token call: the view of its whole input, the views it
\* makes, the remainder it returns.
ViewsOfCall ==
    {FromStr(last.input)} \cup lex_token_views(last.input)
        \cup (IF last.ret.tag = "Ok" THEN OptView(last.ret.rem) ELSE {})

\* C17: every view made by lex_token and TokenStream::new through
\* remaining(), skip(n) and lex, from the view of the whole buffer on, has
\* start_byte <= end_byte <= len(buffer) with both offsets on code-point
\* boundaries of its buffer; and remaining() of it is None exactly when its
\* span ends at the buffer's length, otherwise the view from the span's end
\* to the buffer's end.
C17_ViewInvariant ==
    LexCalled => \A v \in ViewsOfCall : ViewInvariant(v) /\ RemainingIsTail(v)

C17_Witness ==
    /\ LexCalled
    /\ last.input = <<QUOTE, EAcute, Cont, QUOTE, Rocket, Cont, Cont, Cont>>
    /\ Cardinality(lex_token_views(last.input)) = 6
    /\ [src |-> <<EAcute, Cont, QUOTE, Rocket, Cont, Cont, Cont>>,
        start_byte |-> 0, end_byte |-> 2] \in lex_token_views(last.input)
    /\ IsSome(rest)
    /\ rest.val.start_byte = 3

====
